---------------------------- MODULE Spec2Model ----------------------------
(***************************************************************************)
(* Fitness studio booking API: the booking service (app/services/booking)  *)
(* and its HTTP routes (app/api/v1/routes/booking) over the relational     *)
(* store (tables fitness_classes and bookings, app/models/booking).        *)
(*                                                                         *)
(* Every HTTP request is a process r with its own ORM session.  A request  *)
(* talks to the shared store only through its queries and its commit, so   *)
(* the requests interleave at those statements.  The store runs one        *)
(* statement, and the flush-and-commit of one session, atomically; a       *)
(* session sees only committed rows.  The code asks for no lock            *)
(* (no SELECT ... FOR UPDATE) and no stricter isolation.                   *)
(*                                                                         *)
(* Timestamps are instants on an integer clock, in half hours, paired with *)
(* the UTC offset they are displayed in; they compare by instant.          *)
(***************************************************************************)
EXTENDS Integers, Sequences, FiniteSets, TLC

(* ------------------------------ bounds -------------------------------- *)

\* number of HTTP requests of a run
NumReq == 2
\* the clock runs from 0 to MaxTime
MaxTime == 2
\* capacity of the seeded open class
MaxSlots == 2

Reqs == 1..NumReq

(* ---------------------------- input sets ------------------------------ *)

Emails == {"a@x.com", "b@x.com"}
\* the client_name each client sends, as typed
ClientNames == [e \in Emails |->
    IF e = "a@x.com" THEN <<" ", "a", "N", " ", "l", "E", "\t">>
                     ELSE <<"b", "O", "B">>]
\* names the schema has to turn down: a blank one, and one that is too short
BadNames == { <<"\t", " ", " ">>, <<"a">> }
\* the bodies of POST /book: the open class (id 1) and the full class (2) with
\* either client, the deactivated class (3) and a class id that matches no
\* row (4) with one client each,
\* and bodies with a name the schema has to turn down
Bodies ==
    { [class_id |-> c, client_email |-> e, client_name |-> ClientNames[e]] :
          c \in {1, 2}, e \in Emails }
    \cup { [class_id |-> 3, client_email |-> "b@x.com", client_name |-> ClientNames["b@x.com"]],
           [class_id |-> 4, client_email |-> "a@x.com", client_name |-> ClientNames["a@x.com"]] }
    \cup { [class_id |-> 1, client_email |-> "a@x.com", client_name |-> n] : n \in BadNames }
\* emails a lookup may name: those of the clients, and one that differs from
\* a client's only in case
LookupEmails == Emails \cup {"A@x.com"}
\* samples of uuid.uuid4().hex (cut to 10 of its 32 characters), in the order
\* in which they first reach the store
UuidHexes == << <<"a","1","b","2","c","3","d","4","e","5">>,
                <<"0","f","9","e","8","d","7","c","6","b">> >>
\* what the store may raise on a statement of the write phase (the commit,
\* the refresh) besides a constraint violation
CommitFaults == {"OperationalError"}
\* timezone names a caller may pass: two known to the tz database, one not
TimezoneNames == {"Asia/Kolkata", "America/New_York", "Mars/Olympus"}

(* ------------------------------ state --------------------------------- *)

VARIABLES
    classes,    \* table fitness_classes: id -> row
    bookings,   \* table bookings: sequence of rows in insertion order (id = index)
    now,        \* the wall clock
    pc,         \* per request: the statement it is at
    req,        \* per request: its input, and how many bookings were on file when it arrived
    sess,       \* per request: the FitnessClass object its session loaded
    newb,       \* per request: id of the booking row it committed (0: none)
    raised,     \* per request: the exception the service raised
    resp        \* per request: the HTTP response

vars == <<classes, bookings, now, pc, req, sess, newb, raised, resp>>

NoReq == [kind |-> "none"]
NoClass == [id |-> 0]
NoResp == [status |-> 0]
NoException == [type |-> "none"]

(* ----------------------------- timezones ------------------------------ *)

\* settings.DEFAULT_TIMEZONE = "Asia/Kolkata": UTC+5:30, in half hours
DefaultOffset == 11

\* pytz.timezone(name): the zone's UTC offset in half hours; -99 stands for
\* UnknownTimeZoneError
TzOffset(name) ==
    CASE name = "Asia/Kolkata" -> DefaultOffset
      [] name = "America/New_York" -> -10
      [] OTHER -> -99

KnownTimezone(name) == TzOffset(name) # -99

\* an aware datetime: the instant and the offset it is expressed in
Aware(instant, off) == [utc |-> instant, off |-> off]

\* TimezoneManager.convert_timezone: same instant, target zone's offset
convert_timezone(dt, target) == Aware(dt.utc, TzOffset(target))

\* TimezoneManager.get_current_time(): now in the default zone
get_current_time == Aware(now, DefaultOffset)

(* -------------------------- model properties -------------------------- *)

\* FitnessClass.booked_slots
booked_slots(fc) == fc.max_slots - fc.available_slots

\* FitnessClass.is_fully_booked
is_fully_booked(fc) == fc.available_slots <= 0

is_past_nonstrict(fc) == fc.class_datetime.utc <= now

\* FitnessClass.is_past: class_datetime < datetime.now(default_tz)
is_past(fc) == fc.class_datetime.utc < now

(* ------------------------------ strings ------------------------------- *)

UpperChar(ch) ==
    CASE ch = "a" -> "A" [] ch = "b" -> "B" [] ch = "c" -> "C"
      [] ch = "d" -> "D" [] ch = "e" -> "E" [] ch = "f" -> "F"
      [] OTHER -> ch

\* str.upper() on a string of hex digits
Upper(s) == [i \in 1..Len(s) |-> UpperChar(s[i])]

\* BookingService._generate_booking_reference: f"FB{uuid4().hex[:8].upper()}"
generate_booking_reference(hex) == <<"F", "B">> \o Upper(SubSeq(hex, 1, 8))

\* a message is the sequence of its words; Contains: `part in message`
Contains(msg, part) ==
    \E i \in 1..(Len(msg) - Len(part) + 1) :
        SubSeq(msg, i, i + Len(part) - 1) = part


\* str.strip(): whitespace
IsSpace(ch) == ch \in {" ", "\t"}

\* str.strip()
strip(s) ==
    LET kept == { i \in 1..Len(s) : ~IsSpace(s[i]) }
    IN IF kept = {} THEN <<>>
       ELSE SubSeq(s, CHOOSE i \in kept : \A j \in kept : i <= j,
                      CHOOSE i \in kept : \A j \in kept : j <= i)

\* the letters of the names, lower case and upper case
LowerLetters == <<"a", "b", "e", "l", "n", "o">>
UpperLetters == <<"A", "B", "E", "L", "N", "O">>
LetterIndex(ch) ==
    { i \in 1..Len(LowerLetters) : ch = LowerLetters[i] \/ ch = UpperLetters[i] }
IsLetter(ch) == LetterIndex(ch) # {}
ToUpper(ch) == IF IsLetter(ch) THEN UpperLetters[CHOOSE i \in LetterIndex(ch) : TRUE] ELSE ch
ToLower(ch) == IF IsLetter(ch) THEN LowerLetters[CHOOSE i \in LetterIndex(ch) : TRUE] ELSE ch

\* str.title(): a letter that follows a letter goes to lower case, any other
\* letter to upper case
title(s) ==
    [i \in 1..Len(s) |->
        IF i > 1 /\ IsLetter(s[i - 1]) THEN ToLower(s[i]) ELSE ToUpper(s[i])]

\* Field(..., min_length=2) of BookingBase.client_name
MinNameLength == 2

validate_client_name_unstripped_test(v) ==
    IF Len(v) < MinNameLength
    THEN [ok |-> FALSE, msg |-> <<"ensure", "this", "value", "has", "at", "least", "2", "characters">>]
    ELSE IF v = <<>>
    THEN [ok |-> FALSE, msg |-> <<"Client", "name", "cannot", "be", "empty">>]
    ELSE [ok |-> TRUE, value |-> title(strip(v))]

\* BookingCreate.client_name: the field's length constraint, then the validator
\* validate_client_name (ValueError if not v.strip(), else v.strip().title())
validate_client_name(v) ==
    IF Len(v) < MinNameLength
    THEN [ok |-> FALSE, msg |-> <<"ensure", "this", "value", "has", "at", "least", "2", "characters">>]
    ELSE IF strip(v) = <<>>
    THEN [ok |-> FALSE, msg |-> <<"Client", "name", "cannot", "be", "empty">>]
    ELSE [ok |-> TRUE, value |-> title(strip(v))]

(* ---------------------------- the store ------------------------------- *)

\* references of the seeded bookings (generated by earlier runs)
SeedRefConfirmed == <<"F","B","1","1","1","1","1","1","1","1">>
SeedRefCancelled == <<"F","B","2","2","2","2","2","2","2","2">>

\* a row of fitness_classes (models.FitnessClass)
FitnessClass(id, name, start, max, avail, active) ==
    [id |-> id, name |-> name, class_datetime |-> start, max_slots |-> max,
     available_slots |-> avail, is_active |-> active]

\* a row of bookings (models.Booking); created_at defaults to the store's now
Booking(id, cid, name, email, status, ref, at) ==
    [id |-> id, class_id |-> cid, client_name |-> name, client_email |-> email,
     booking_status |-> status, booking_reference |-> ref, created_at |-> at]

\* class 1: an open class as create_sample_classes and the test fixture seed
\* it (available_slots = max_slots), starting at time 1.
\* class 2: the tests' "Full Class" (max_slots 1, available_slots 0), here
\* with the confirmed booking that fills it, starting after MaxTime.
\* class 3: a class that has been deactivated.
\* One cancelled booking of class 1 is on file.
Init ==
    /\ \E m \in 1..MaxSlots :
          classes = (1 :> FitnessClass(1, "Yoga", Aware(1, DefaultOffset), m, m, TRUE))
                 @@ (2 :> FitnessClass(2, "Full", Aware(MaxTime + 1, DefaultOffset), 1, 0, TRUE))
                 @@ (3 :> FitnessClass(3, "Old", Aware(MaxTime + 1, DefaultOffset), 1, 1, FALSE))
    /\ bookings = << Booking(1, 2, <<"B", "o", "b">>, "b@x.com", "confirmed", SeedRefConfirmed, 0),
                     Booking(2, 1, <<"A", "n", " ", "L", "e">>, "a@x.com", "cancelled", SeedRefCancelled, 0) >>
    /\ now = 0
    /\ pc = [r \in Reqs |-> "idle"]
    /\ req = [r \in Reqs |-> NoReq]
    /\ sess = [r \in Reqs |-> NoClass]
    /\ newb = [r \in Reqs |-> 0]
    /\ raised = [r \in Reqs |-> NoException]
    /\ resp = [r \in Reqs |-> NoResp]

(* ---------------------------- exceptions ------------------------------ *)

\* utils.exceptions.BookingAPIException and its subclasses
Exception(type, message, details) ==
    [type |-> type, message |-> message, details |-> details]

\* utils.exceptions.create_http_exception
create_http_exception(status, message, details) ==
    [status |-> status,
     detail |-> [message |-> message, details |-> details,
                 error_type |-> "booking_api_error"]]

StatusOf_no_slots_as_invalid(type) ==
    CASE type = "ClassNotFoundException" -> 404
      [] type = "NoSlotsAvailableException" -> 400
      [] type = "DuplicateBookingException" -> 409
      [] type = "InvalidBookingDataException" -> 400
      [] OTHER -> 500

\* routes.create_booking, the except clauses: exception type -> status code
StatusOf(type) ==
    CASE type = "ClassNotFoundException" -> 404
      [] type = "NoSlotsAvailableException" -> 409
      [] type = "DuplicateBookingException" -> 409
      [] type = "InvalidBookingDataException" -> 400
      [] OTHER -> 500

\* routes.create_booking on an exception of the service: the domain
\* exceptions pass their message and details on; anything else becomes a 500
\* with a fixed message
HttpError(e) ==
    IF StatusOf(e.type) = 500
    THEN create_http_exception(500, <<"Failed", "to", "create", "booking">>, <<>>)
    ELSE create_http_exception(StatusOf(e.type), e.message, e.details)

(* ----------------------------- queries -------------------------------- *)

get_class_by_id_any(cid) ==
    IF cid \in DOMAIN classes THEN classes[cid] ELSE NoClass

\* BookingService.get_class_by_id: the row with this id and is_active, or none
get_class_by_id(cid) ==
    IF cid \in DOMAIN classes /\ classes[cid].is_active
    THEN classes[cid]
    ELSE NoClass

existing_bookings_by_id(cid, email) ==
    { i \in 1..Len(bookings) :
        /\ bookings[i].id = cid
        /\ bookings[i].client_email = email
        /\ bookings[i].booking_status = "confirmed" }

\* the duplicate query of create_booking: ids of the confirmed bookings of
\* this class and email
existing_bookings(cid, email) ==
    { i \in 1..Len(bookings) :
        /\ bookings[i].class_id = cid
        /\ bookings[i].client_email = email
        /\ bookings[i].booking_status = "confirmed" }

ReferenceTaken_unconstrained(ref) == FALSE

\* the unique constraint on bookings.booking_reference
ReferenceTaken(ref) ==
    \E i \in 1..Len(bookings) : bookings[i].booking_reference = ref

\* uuid4() returns the k-th sample: one that made a reference on file, or the
\* first that has not (the samples are told apart only by being equal or not)
Draws(k) ==
    \A j \in 1..(k - 1) : ReferenceTaken(generate_booking_reference(UuidHexes[j]))


(* ----------------------- POST /api/v1/book ---------------------------- *)

\* the service raises e: its except clause rolls the session back (nothing
\* was flushed, the store is as it was) and the route turns e into the response
Raise(r, e) ==
    /\ raised' = [raised EXCEPT ![r] = e]
    /\ resp' = [resp EXCEPT ![r] = HttpError(e)]
    /\ pc' = [pc EXCEPT ![r] = "done"]

ClassNotFound(cid) ==
    Exception("ClassNotFoundException",
              <<"Class", "with", "ID", ToString(cid), "not", "found", "or", "inactive">>,
              [class_id |-> cid])

ClassAlreadyOccurred(fc) ==
    Exception("InvalidBookingDataException",
              <<"Cannot", "book", "a", "class", "that", "has", "already", "occurred">>,
              [class_datetime |-> fc.class_datetime])

NoSlotsAvailable(cid, fc) ==
    Exception("NoSlotsAvailableException",
              <<"No", "available", "slots", "for", "class", fc.name>>,
              [class_id |-> cid, available_slots |-> fc.available_slots])

DuplicateBooking(email, id) ==
    Exception("DuplicateBookingException",
              <<"Client", email, "already", "has", "a", "booking", "for", "this", "class">>,
              [existing_booking_id |-> id])

\* the last except clause of create_booking: the cause's text goes into the
\* message
FailedToCreate(cause) ==
    Exception("InvalidBookingDataException",
              <<"Failed", "to", "create", "booking:", cause>>, <<>>)

has_no_slots_negative_only(fc) == fc.available_slots < 0

\* the capacity check: fitness_class.available_slots <= 0
has_no_slots(fc) == fc.available_slots <= 0

\* fitness_class.available_slots -= 1, on the object the session loaded
decremented(fc) == fc.available_slots - 1

\* requests are numbered in the order they arrive
Arrives(r) == pc[r] = "idle" /\ \A q \in Reqs : q < r => pc[q] # "idle"

\* the answer to a body that fails the schema: 422 with the errors found
RequestValidationError(loc, msg) ==
    [status |-> 422, detail |-> << [loc |-> <<"body", loc>>, msg |-> msg] >>]

\* The request arrives and its body is parsed as BookingCreate.  A body that
\* fails the schema is answered 422 and the route is not called; otherwise
\* create_booking runs get_class_by_id.  booking_data.client_name is the
\* validator's result.
GetClass(r, body) ==
    /\ Arrives(r)
    /\ LET cid == body.class_id
           email == body.client_email
           name == body.client_name
           parsed == validate_client_name(name)
           fc == get_class_by_id(cid)
       IN IF ~parsed.ok
          THEN /\ req' = [req EXCEPT ![r] = [kind |-> "book_invalid", raw_name |-> name]]
               /\ resp' = [resp EXCEPT ![r] = RequestValidationError("client_name", parsed.msg)]
               /\ pc' = [pc EXCEPT ![r] = "done"]
               /\ UNCHANGED <<sess, raised>>
          ELSE /\ req' = [req EXCEPT ![r] = [kind |-> "book", class_id |-> cid,
                                             raw_name |-> name,
                                             client_name |-> parsed.value,
                                             client_email |-> email,
                                             bookings_before |-> Len(bookings)]]
               /\ IF fc.id = 0
                  THEN Raise(r, ClassNotFound(cid)) /\ sess' = sess
                  ELSE /\ sess' = [sess EXCEPT ![r] = fc]
                       /\ pc' = [pc EXCEPT ![r] = "validate"]
                       /\ UNCHANGED <<raised, resp>>
    /\ UNCHANGED <<classes, bookings, now, newb>>

Validate_capacity_first(r) ==
    /\ pc[r] = "validate"
    /\ IF has_no_slots(sess[r])
       THEN Raise(r, NoSlotsAvailable(req[r].class_id, sess[r]))
       ELSE IF is_past(sess[r])
       THEN Raise(r, ClassAlreadyOccurred(sess[r]))
       ELSE /\ pc' = [pc EXCEPT ![r] = "check_dup"]
            /\ UNCHANGED <<raised, resp>>
    /\ UNCHANGED <<classes, bookings, now, req, sess, newb>>

\* The timing check, then the capacity check, on the loaded object.
Validate(r) ==
    /\ pc[r] = "validate"
    /\ IF is_past(sess[r])
       THEN Raise(r, ClassAlreadyOccurred(sess[r]))
       ELSE IF has_no_slots(sess[r])
       THEN Raise(r, NoSlotsAvailable(req[r].class_id, sess[r]))
       ELSE /\ pc' = [pc EXCEPT ![r] = "check_dup"]
            /\ UNCHANGED <<raised, resp>>
    /\ UNCHANGED <<classes, bookings, now, req, sess, newb>>

CheckDuplicate_decrement_first(r) ==
    /\ pc[r] = "check_dup"
    /\ classes' = [classes EXCEPT ![req[r].class_id].available_slots = decremented(sess[r])]
    /\ LET found == existing_bookings(req[r].class_id, req[r].client_email) IN
         IF found # {}
         THEN \E i \in found : Raise(r, DuplicateBooking(req[r].client_email, bookings[i].id))
         ELSE /\ pc' = [pc EXCEPT ![r] = "write"]
              /\ UNCHANGED <<raised, resp>>
    /\ UNCHANGED <<bookings, now, req, sess, newb>>

\* The duplicate query; .first() without ORDER BY returns any matching row.
CheckDuplicate(r) ==
    /\ pc[r] = "check_dup"
    /\ LET found == existing_bookings(req[r].class_id, req[r].client_email) IN
         IF found # {}
         THEN \E i \in found : Raise(r, DuplicateBooking(req[r].client_email, bookings[i].id))
         ELSE /\ pc' = [pc EXCEPT ![r] = "write"]
              /\ UNCHANGED <<raised, resp>>
    /\ UNCHANGED <<classes, bookings, now, req, sess, newb>>

Commit_update_without_where(r, k, fault) ==
    /\ pc[r] = "write"
    /\ Draws(k)
    /\ LET ref == generate_booking_reference(UuidHexes[k])
           cid == req[r].class_id
           cause == IF fault # "none" THEN fault
                    ELSE IF ReferenceTaken(ref) THEN "IntegrityError"
                    ELSE "none"
       IN IF cause # "none"
          THEN /\ Raise(r, FailedToCreate(cause))
               /\ UNCHANGED <<classes, bookings, newb>>
          ELSE /\ classes' = [c \in DOMAIN classes |->
                                [classes[c] EXCEPT !.available_slots = decremented(sess[r])]]
               /\ bookings' = Append(bookings,
                     Booking(Len(bookings) + 1, cid, req[r].client_name, req[r].client_email,
                             "confirmed", ref, now))
               /\ newb' = [newb EXCEPT ![r] = Len(bookings) + 1]
               /\ pc' = [pc EXCEPT ![r] = "refresh"]
               /\ UNCHANGED <<raised, resp>>
    /\ UNCHANGED <<now, req, sess>>

\* The write phase: the reference is generated, the loaded object's
\* available_slots is decremented, and commit() flushes
\*   UPDATE fitness_classes SET available_slots = <the new value> WHERE id = ..
\*   INSERT INTO bookings ..
\* in one transaction.  The transaction fails as a whole on a duplicate
\* reference (IntegrityError) or on a fault of the store; the except clause
\* then rolls back and raises InvalidBookingDataException.
Commit(r, k, fault) ==
    /\ pc[r] = "write"
    /\ Draws(k)
    /\ LET ref == generate_booking_reference(UuidHexes[k])
           cid == req[r].class_id
           cause == IF fault # "none" THEN fault
                    ELSE IF ReferenceTaken(ref) THEN "IntegrityError"
                    ELSE "none"
       IN IF cause # "none"
          THEN /\ Raise(r, FailedToCreate(cause))
               /\ UNCHANGED <<classes, bookings, newb>>
          ELSE /\ classes' = [classes EXCEPT ![cid].available_slots = decremented(sess[r])]
               /\ bookings' = Append(bookings,
                     Booking(Len(bookings) + 1, cid, req[r].client_name, req[r].client_email,
                             "confirmed", ref, now))
               /\ newb' = [newb EXCEPT ![r] = Len(bookings) + 1]
               /\ pc' = [pc EXCEPT ![r] = "refresh"]
               /\ UNCHANGED <<raised, resp>>
    /\ UNCHANGED <<now, req, sess>>

\* schemas.FitnessClassResponse as the routes fill it, shown in the default
\* timezone
ClassSnapshot(fc, start) ==
    [id |-> fc.id, name |-> fc.name, class_datetime |-> start,
     max_slots |-> fc.max_slots, available_slots |-> fc.available_slots,
     booked_slots |-> booked_slots(fc), is_fully_booked |-> is_fully_booked(fc),
     is_active |-> fc.is_active]

\* schemas.BookingResponse as the routes fill it: the booking row and its
\* class, both as the store holds them when the response is built
BookingResponse(b) ==
    [id |-> b.id, class_id |-> b.class_id, client_name |-> b.client_name,
     client_email |-> b.client_email,
     booking_reference |-> b.booking_reference,
     booking_status |-> b.booking_status, created_at |-> b.created_at,
     fitness_class |->
        ClassSnapshot(classes[b.class_id],
                      convert_timezone(classes[b.class_id].class_datetime, "Asia/Kolkata"))]

\* After the commit every loaded object is expired: refresh(new_booking) and
\* the route's booking.fitness_class read the store again.  refresh is still
\* inside the try of create_booking: if its SELECT fails, the except clause
\* rolls back (the transaction is already committed) and raises
\* InvalidBookingDataException.
Respond(r, fault) ==
    /\ pc[r] = "refresh"
    /\ IF fault # "none"
       THEN Raise(r, FailedToCreate(fault))
       ELSE /\ resp' = [resp EXCEPT ![r] =
                    [status |-> 200, body |-> BookingResponse(bookings[newb[r]])]]
            /\ pc' = [pc EXCEPT ![r] = "done"]
            /\ UNCHANGED raised
    /\ UNCHANGED <<classes, bookings, now, req, sess, newb>>


(* ----------------- GET /api/v1/classes, /api/v1/bookings -------------- *)

\* the orders of the rows of S that ORDER BY key ASC allows: rows with equal
\* keys come in any order
Orderings(S, key) ==
    { s \in [1..Cardinality(S) -> S] :
        /\ \A i, j \in 1..Cardinality(S) : i # j => s[i] # s[j]
        /\ \A i, j \in 1..Cardinality(S) : i < j => key[s[i]] <= key[s[j]] }

upcoming_classes_nonstrict ==
    { c \in DOMAIN classes :
        /\ classes[c].is_active
        /\ classes[c].class_datetime.utc >= get_current_time.utc }

\* the query of get_all_classes: active classes starting after now
upcoming_classes ==
    { c \in DOMAIN classes :
        /\ classes[c].is_active
        /\ classes[c].class_datetime.utc > get_current_time.utc }

\* ORDER BY class_datetime
ByStart == [c \in DOMAIN classes |-> classes[c].class_datetime.utc]

ListClasses_flushing(r, tz) ==
    /\ Arrives(r)
    /\ req' = [req EXCEPT ![r] = [kind |-> "classes", timezone |-> tz]]
    /\ \E order \in Orderings(upcoming_classes, ByStart) :
         IF tz # "" /\ order # <<>> /\ ~KnownTimezone(tz)
         THEN /\ resp' = [resp EXCEPT ![r] =
                    create_http_exception(500, <<"Failed", "to", "retrieve", "classes">>, <<>>)]
              /\ classes' = classes
         ELSE /\ resp' = [resp EXCEPT ![r] =
                    [status |-> 200,
                     body |-> [i \in 1..Len(order) |->
                         ClassSnapshot(classes[order[i]],
                             IF tz # ""
                             THEN convert_timezone(classes[order[i]].class_datetime, tz)
                             ELSE classes[order[i]].class_datetime)]]]
              /\ classes' = [c \in DOMAIN classes |->
                    IF tz # "" /\ c \in upcoming_classes
                    THEN [classes[c] EXCEPT
                             !.class_datetime = convert_timezone(classes[c].class_datetime, tz)]
                    ELSE classes[c]]
    /\ pc' = [pc EXCEPT ![r] = "done"]
    /\ UNCHANGED <<bookings, now, sess, newb, raised>>

\* BookingService.get_all_classes and the route get_classes.  The conversion
\* is done on the objects of the request's own session, which is closed
\* without a commit.  An unknown timezone name raises inside the conversion
\* and the route answers 500.
ListClasses(r, tz) ==
    /\ Arrives(r)
    /\ req' = [req EXCEPT ![r] = [kind |-> "classes", timezone |-> tz]]
    /\ \E order \in Orderings(upcoming_classes, ByStart) :
         IF tz # "" /\ order # <<>> /\ ~KnownTimezone(tz)
         THEN resp' = [resp EXCEPT ![r] =
                  create_http_exception(500, <<"Failed", "to", "retrieve", "classes">>, <<>>)]
         ELSE resp' = [resp EXCEPT ![r] =
                  [status |-> 200,
                   body |-> [i \in 1..Len(order) |->
                       ClassSnapshot(classes[order[i]],
                           IF tz # ""
                           THEN convert_timezone(classes[order[i]].class_datetime, tz)
                           ELSE classes[order[i]].class_datetime)]]]
    /\ pc' = [pc EXCEPT ![r] = "done"]
    /\ UNCHANGED <<classes, bookings, now, sess, newb, raised>>

bookings_of_confirmed_only(email) ==
    { i \in 1..Len(bookings) :
        /\ bookings[i].client_email = email
        /\ bookings[i].booking_status = "confirmed" }

\* the query of get_bookings_by_email: every booking of this email
bookings_of(email) ==
    { i \in 1..Len(bookings) : bookings[i].client_email = email }

\* ORDER BY created_at DESC
ByCreatedDesc == [i \in 1..Len(bookings) |-> 0 - bookings[i].created_at]

\* BookingService.get_bookings_by_email and the route get_bookings
ListBookings(r, email) ==
    /\ Arrives(r)
    /\ req' = [req EXCEPT ![r] = [kind |-> "bookings", client_email |-> email]]
    /\ \E order \in Orderings(bookings_of(email), ByCreatedDesc) :
         resp' = [resp EXCEPT ![r] =
             [status |-> 200,
              body |-> [bookings |-> [i \in 1..Len(order) |-> BookingResponse(bookings[order[i]])],
                        total_count |-> Len(order),
                        client_email |-> email]]]
    /\ pc' = [pc EXCEPT ![r] = "done"]
    /\ UNCHANGED <<classes, bookings, now, sess, newb, raised>>

(* ------------------------------ system -------------------------------- *)

\* time passes
Tick ==
    /\ now < MaxTime
    /\ now' = now + 1
    /\ UNCHANGED <<classes, bookings, pc, req, sess, newb, raised, resp>>

Next ==
    \/ \E r \in Reqs, body \in Bodies : GetClass(r, body)
    \/ \E r \in Reqs : Validate(r)
    \/ \E r \in Reqs : CheckDuplicate(r)
    \/ \E r \in Reqs, k \in DOMAIN UuidHexes, fault \in CommitFaults \cup {"none"} :
          Commit(r, k, fault)
    \/ \E r \in Reqs, fault \in CommitFaults \cup {"none"} : Respond(r, fault)
    \/ \E r \in Reqs, tz \in TimezoneNames \cup {""} : ListClasses(r, tz)
    \/ \E r \in Reqs, email \in LookupEmails : ListBookings(r, email)
    \/ Tick

Spec == Init /\ [][Next]_vars

(* ============================= properties ============================= *)

\* request r is a POST /book whose body passed the schema and that has got
\* its response
Booked(r) == pc[r] = "done" /\ req[r].kind = "book"

\* r's create_booking returned a booking
Succeeded(r) == Booked(r) /\ resp[r].status = 200

\* r's create_booking raised an exception of this type
RaisedType(r, type) == Booked(r) /\ raised[r].type = type

\* the confirmed bookings of a class and email now on file
ConfirmedOf(cid, email) ==
    { i \in 1..Len(bookings) :
        /\ bookings[i].class_id = cid
        /\ bookings[i].client_email = email
        /\ bookings[i].booking_status = "confirmed" }

\* C1 (as claimed): on a class with max_slots = 1 whose last slot both of two
\* requests of distinct clients read as free (available_slots = 1), and which
\* neither found started nor lost to a fault of the store, exactly one request
\* succeeds and the other fails with NoSlotsAvailable (409).
C1_LastSlotHasOneWinner ==
    \A r1, r2 \in Reqs :
        ( /\ r1 # r2
          /\ Booked(r1) /\ Booked(r2)
          /\ req[r1].class_id = req[r2].class_id
          /\ req[r1].client_email # req[r2].client_email
          /\ sess[r1].id # 0 /\ sess[r2].id # 0
          /\ sess[r1].max_slots = 1 /\ sess[r1].available_slots = 1
          /\ sess[r2].available_slots = 1
          /\ raised[r1].type # "InvalidBookingDataException"
          /\ raised[r2].type # "InvalidBookingDataException" )
        => \/ /\ Succeeded(r1)
              /\ RaisedType(r2, "NoSlotsAvailableException") /\ resp[r2].status = 409
           \/ /\ Succeeded(r2)
              /\ RaisedType(r1, "NoSlotsAvailableException") /\ resp[r1].status = 409

\* C2 (as claimed): a (class, client email) pair never has more than one
\* confirmed booking.
C2_AtMostOneConfirmedPerPair ==
    \A cid \in DOMAIN classes, email \in Emails :
        Cardinality(ConfirmedOf(cid, email)) <= 1

\* C3: every class has 0 <= available_slots <= max_slots, whatever bookings,
\* class listings and booking lookups have run and however they interleaved.
C3_SlotsWithinCapacity ==
    \A cid \in DOMAIN classes :
        /\ 0 <= classes[cid].available_slots
        /\ classes[cid].available_slots <= classes[cid].max_slots

\* C3's case: a class was booked out while a listing and a booking ran
C3_Witness ==
    /\ \E r \in Reqs :
          Succeeded(r) /\ classes[req[r].class_id].available_slots = 0
    /\ \E r \in Reqs : pc[r] = "done" /\ req[r].kind \in {"classes", "bookings"}


UpperHexDigits == {"0", "1", "2", "3", "4", "5", "6", "7", "8", "9",
                   "A", "B", "C", "D", "E", "F"}

\* 'FB' followed by 8 uppercase hex characters
WellFormedReference(ref) ==
    /\ Len(ref) = 10
    /\ ref[1] = "F" /\ ref[2] = "B"
    /\ \A i \in 3..10 : ref[i] \in UpperHexDigits

\* C4 (as claimed): the commit of a successful create_booking lowers the
\* stored available_slots of its class by exactly 1 and adds exactly one
\* booking, confirmed, of the requested class and email, with a reference
\* 'FB' + 8 uppercase hex characters; its response returns that booking and
\* a class snapshot showing the decremented available_slots.
C4_SuccessfulBookingEffect ==
    [][\A r \in Reqs :
        /\ (pc[r] = "write" /\ pc'[r] = "refresh") =>
              /\ classes'[req[r].class_id].available_slots
                    = classes[req[r].class_id].available_slots - 1
              /\ Len(bookings') = Len(bookings) + 1
              /\ SubSeq(bookings', 1, Len(bookings)) = bookings
              /\ bookings'[Len(bookings')].class_id = req[r].class_id
              /\ bookings'[Len(bookings')].client_email = req[r].client_email
              /\ bookings'[Len(bookings')].booking_status = "confirmed"
              /\ WellFormedReference(bookings'[Len(bookings')].booking_reference)
        /\ (pc[r] = "refresh" /\ pc'[r] = "done" /\ resp'[r].status = 200) =>
              /\ resp'[r].body.id = newb[r]
              /\ resp'[r].body.booking_status = "confirmed"
              /\ WellFormedReference(resp'[r].body.booking_reference)
              /\ resp'[r].body.fitness_class.available_slots
                    = sess[r].available_slots - 1
      ]_vars

\* C5 (as claimed): a booking request that reads its class with
\* available_slots = 0 always fails with NoSlotsAvailable (409).
C5_ZeroSlotsAlwaysNoSlots ==
    \A r \in Reqs :
        (Booked(r) /\ sess[r].id # 0 /\ sess[r].available_slots = 0)
        => (raised[r].type = "NoSlotsAvailableException" /\ resp[r].status = 409)

\* C5 (amended): a booking request that reads its class with
\* available_slots = 0, the class not having started when the request checks
\* it, fails with NoSlotsAvailable (409); that step changes no class and no
\* booking, and the request has written nothing.
C5_ZeroSlotsNotStarted ==
    [][\A r \in Reqs :
        ( /\ pc[r] = "validate" /\ pc'[r] # "validate"
          /\ sess[r].available_slots = 0
          /\ sess[r].class_datetime.utc >= now )
        => /\ pc'[r] = "done"
           /\ raised'[r].type = "NoSlotsAvailableException"
           /\ raised'[r].details.available_slots = 0
           /\ resp'[r].status = 409
           /\ newb'[r] = 0
           /\ classes' = classes
           /\ bookings' = bookings
      ]_vars

\* C5's case: a request was refused for a class it read with no slot left
C5_Witness ==
    \E r \in Reqs :
        /\ RaisedType(r, "NoSlotsAvailableException")
        /\ sess[r].available_slots = 0
        /\ resp[r].status = 409

\* a confirmed booking of r's class and email was on file when r arrived
HadConfirmed(r) ==
    \E i \in 1..req[r].bookings_before :
        /\ bookings[i].class_id = req[r].class_id
        /\ bookings[i].client_email = req[r].client_email
        /\ bookings[i].booking_status = "confirmed"

AlreadyHasABooking(r) ==
    Contains(resp[r].detail.message, <<"already", "has", "a", "booking">>)

\* C6 (as claimed): a create_booking of a client who already holds a confirmed
\* booking of that class (the class found, active) fails with
\* DuplicateBooking (409, 'already has a booking').
C6_SecondAttemptIsDuplicate ==
    \A r \in Reqs :
        (Booked(r) /\ HadConfirmed(r) /\ sess[r].id # 0)
        => /\ raised[r].type = "DuplicateBookingException"
           /\ resp[r].status = 409
           /\ AlreadyHasABooking(r)

\* C6 (amended): a create_booking of a client who already holds a confirmed
\* booking of that class never reaches the write phase and creates no
\* booking.  It fails with DuplicateBooking (409, 'already has a booking',
\* naming a confirmed booking of the pair) when the class is active, has not
\* started and is read with a free slot; otherwise it fails on the earlier
\* check: ClassNotFound, InvalidBookingData for a started class, or
\* NoSlotsAvailable.
C6_SecondAttemptNeverBooks ==
    \A r \in Reqs :
        (req[r].kind = "book" /\ HadConfirmed(r))
        => /\ pc[r] \notin {"write", "refresh"}
           /\ newb[r] = 0
           /\ pc[r] = "done" =>
                /\ resp[r].status # 200
                /\ \/ raised[r].type = "ClassNotFoundException" /\ sess[r].id = 0
                   \/ raised[r].type = "InvalidBookingDataException"
                        /\ Contains(raised[r].message, <<"already", "occurred">>)
                   \/ raised[r].type = "NoSlotsAvailableException"
                        /\ sess[r].available_slots <= 0
                   \/ raised[r].type = "DuplicateBookingException"
                /\ ( /\ sess[r].id # 0
                     /\ sess[r].available_slots > 0
                     /\ sess[r].class_datetime.utc >= now )
                   => /\ raised[r].type = "DuplicateBookingException"
                      /\ resp[r].status = 409
                      /\ AlreadyHasABooking(r)
                      /\ resp[r].detail.details.existing_booking_id
                            \in ConfirmedOf(req[r].class_id, req[r].client_email)

\* C6's case: a client booked a class and then tried to book it again
C6_Witness ==
    \E r1, r2 \in Reqs :
        /\ Succeeded(r1)
        /\ RaisedType(r2, "DuplicateBookingException")
        /\ req[r2].class_id = req[r1].class_id
        /\ req[r2].client_email = req[r1].client_email
        /\ req[r2].bookings_before >= newb[r1]
        /\ resp[r2].detail.details.existing_booking_id = newb[r1]


\* the class a request names is missing or inactive
NotBookable(cid) == cid \notin DOMAIN classes \/ ~classes[cid].is_active

\* C7: a create_booking naming a class id that matches no class, or only an
\* inactive class, fails at once with ClassNotFound carrying the class_id,
\* answered 404 with a message containing 'not found', and leaves classes
\* and bookings as they were.
C7_MissingOrInactiveClass ==
    [][\A r \in Reqs :
        ( /\ pc[r] = "idle" /\ pc'[r] # "idle"
          /\ req'[r].kind = "book"
          /\ NotBookable(req'[r].class_id) )
        => /\ pc'[r] = "done"
           /\ raised'[r].type = "ClassNotFoundException"
           /\ raised'[r].details.class_id = req'[r].class_id
           /\ resp'[r].status = 404
           /\ Contains(resp'[r].detail.message, <<"not", "found">>)
           /\ resp'[r].detail.details.class_id = req'[r].class_id
           /\ newb'[r] = 0
           /\ classes' = classes
           /\ bookings' = bookings
      ]_vars

\* C7's case: one request named a missing class, another an inactive one
C7_Witness ==
    \E r1, r2 \in Reqs :
        /\ RaisedType(r1, "ClassNotFoundException")
        /\ req[r1].class_id \notin DOMAIN classes
        /\ resp[r1].status = 404
        /\ RaisedType(r2, "ClassNotFoundException")
        /\ req[r2].class_id \in DOMAIN classes
        /\ ~classes[req[r2].class_id].is_active
        /\ resp[r2].status = 404

\* r's step ends its create_booking with InvalidBookingData, answered 400
EndsInvalid(r) ==
    /\ pc[r] # "done" /\ pc'[r] = "done"
    /\ req'[r].kind = "book"
    /\ raised'[r].type = "InvalidBookingDataException"
    /\ resp'[r].status = 400

\* C8 (as claimed): a create_booking of an existing active class ends with
\* InvalidBookingData (400) exactly when the class's start is strictly before
\* now at the timing check.
C8_InvalidExactlyWhenStarted ==
    [][\A r \in Reqs :
        /\ (pc[r] = "validate" /\ pc'[r] # "validate"
                /\ sess[r].class_datetime.utc < now) => EndsInvalid(r)
        /\ EndsInvalid(r) => (pc[r] = "validate" /\ sess[r].class_datetime.utc < now)
      ]_vars

\* C8 (amended): the timing check of create_booking rejects an existing
\* active class - InvalidBookingData 'Cannot book a class that has already
\* occurred', 400 - exactly when the class's start is strictly before now; a
\* class with start >= now passes on to the capacity check.  (A failure of
\* the write phase is reported as InvalidBookingData too.)
C8_TimingCheck ==
    [][\A r \in Reqs :
        /\ (pc[r] = "validate" /\ pc'[r] # "validate") =>
              /\ sess[r].class_datetime.utc < now =>
                    /\ EndsInvalid(r)
                    /\ Contains(resp'[r].detail.message, <<"already", "occurred">>)
              /\ sess[r].class_datetime.utc >= now =>
                    /\ ~EndsInvalid(r)
                    /\ \/ pc'[r] = "check_dup"
                       \/ raised'[r].type = "NoSlotsAvailableException"
        /\ (EndsInvalid(r) /\ Contains(resp'[r].detail.message, <<"already", "occurred">>))
              => (pc[r] = "validate" /\ sess[r].class_datetime.utc < now)
      ]_vars

\* C8's case: one request was refused for a started class, and another was
\* let through the timing check of the same class
C8_Witness ==
    \E r1, r2 \in Reqs :
        /\ RaisedType(r1, "InvalidBookingDataException")
        /\ Contains(resp[r1].detail.message, <<"already", "occurred">>)
        /\ resp[r1].status = 400
        /\ req[r2].kind = "book"
        /\ req[r2].class_id = req[r1].class_id
        /\ pc[r2] \in {"check_dup", "write", "refresh"}

\* the exception is one of the four precondition failures
PreconditionFailure(e) ==
    \/ e.type \in {"ClassNotFoundException", "NoSlotsAvailableException",
                   "DuplicateBookingException"}
    \/ /\ e.type = "InvalidBookingDataException"
       /\ Contains(e.message, <<"already", "occurred">>)

\* C9: the step on which create_booking fails a precondition (existence,
\* timing, capacity, duplicate) leaves every class and the bookings as they
\* were, and the request has written nothing before it.
C9_FailedPreconditionChangesNothing ==
    [][\A r \in Reqs :
        ( /\ pc[r] # "done" /\ pc'[r] = "done"
          /\ req'[r].kind = "book"
          /\ PreconditionFailure(raised'[r]) )
        => /\ classes' = classes
           /\ bookings' = bookings
           /\ newb'[r] = 0
      ]_vars

\* C9's case: a duplicate was refused after the class had been booked
C9_Witness ==
    \E r \in Reqs :
        /\ RaisedType(r, "DuplicateBookingException")
        /\ Len(bookings) > 2
        /\ classes[req[r].class_id].available_slots < classes[req[r].class_id].max_slots

\* what may fail the write phase
Causes == CommitFaults \cup {"IntegrityError"}

\* r's create_booking failed in its write phase
WriteFailed(r) ==
    /\ RaisedType(r, "InvalidBookingDataException")
    /\ ~Contains(raised[r].message, <<"already", "occurred">>)

\* C10 (as claimed): the response to an unexpected error carries no text of
\* the underlying cause, so any two such responses have the same body.
C10_NoCauseInResponse ==
    \A r1, r2 \in Reqs :
        (WriteFailed(r1) /\ WriteFailed(r2))
        => /\ \A c \in Causes : ~Contains(resp[r1].detail.message, <<c>>)
           /\ resp[r1].detail = resp[r2].detail

\* r's step is a whole GET /classes
ListsClasses(r) ==
    pc[r] = "idle" /\ pc'[r] = "done" /\ req'[r].kind = "classes"

\* the classes that are active and start strictly after now
ActiveFuture ==
    { c \in DOMAIN classes : classes[c].is_active /\ classes[c].class_datetime.utc > now }

LooksUpBookings(r) ==
    pc[r] = "idle" /\ pc'[r] = "done" /\ req'[r].kind = "bookings"

\* the bookings on file whose client_email is exactly this one
BookingsWithEmail(email) ==
    { i \in 1..Len(bookings) : bookings[i].client_email = email }

Blank(name) == \A i \in 1..Len(name) : IsSpace(name[i])

\* no whitespace at either end
Trimmed(name) ==
    name # <<>> => (~IsSpace(name[1]) /\ ~IsSpace(name[Len(name)]))

IsUpperLetter(ch) == \E i \in 1..Len(UpperLetters) : ch = UpperLetters[i]

\* a letter is upper case exactly when no letter precedes it
TitleCased(name) ==
    \A i \in 1..Len(name) :
        IsLetter(name[i]) =>
            (IsUpperLetter(name[i]) <=> (i = 1 \/ ~IsLetter(name[i - 1])))

\* stored is raw without its surrounding whitespace, up to the case of letters
SameBarMarginAndCase(raw, stored) ==
    \E i, j \in 1..Len(raw) :
        /\ j - i + 1 = Len(stored)
        /\ \A k \in 1..Len(stored) : ToLower(raw[i + k - 1]) = ToLower(stored[k])
        /\ \A k \in 1..Len(raw) : (k < i \/ k > j) => IsSpace(raw[k])

\* r is a POST /book, whether or not its body passed the schema
PostedBook(r) == req[r].kind \in {"book", "book_invalid"}

\* C13 (as claimed): a request whose client_name is empty after trimming is
\* rejected as InvalidBookingData, answered 400.
C13_BlankNameIsInvalidBookingData ==
    \A r \in Reqs :
        (PostedBook(r) /\ pc[r] = "done" /\ Blank(req[r].raw_name))
        => /\ raised[r].type = "InvalidBookingDataException"
           /\ resp[r].status = 400

\* C13 (amended): a request whose client_name is empty after trimming is
\* turned down by the schema - answered 422, create_booking not run, no
\* exception of the service, no class loaded, no booking created; the name of
\* a booking a request created is the name sent without its surrounding
\* whitespace and title-cased, and no booking on file has a blank, untrimmed
\* or otherwise-cased name.
C13_NameValidated ==
    /\ \A r \in Reqs :
          PostedBook(r) =>
             /\ Blank(req[r].raw_name) =>
                   /\ req[r].kind = "book_invalid"
                   /\ pc[r] = "done"
                   /\ resp[r].status = 422
                   /\ raised[r] = NoException
                   /\ sess[r] = NoClass
                   /\ newb[r] = 0
             /\ req[r].kind = "book_invalid" => newb[r] = 0
             /\ newb[r] # 0 =>
                   SameBarMarginAndCase(req[r].raw_name, bookings[newb[r]].client_name)
    /\ \A i \in 1..Len(bookings) :
          /\ ~Blank(bookings[i].client_name)
          /\ Trimmed(bookings[i].client_name)
          /\ TitleCased(bookings[i].client_name)

\* C13's case: a blank name was turned down, and a name sent with surrounding
\* whitespace and mixed case was stored trimmed and title-cased
C13_Witness ==
    \E r1, r2 \in Reqs :
        /\ req[r1].kind = "book_invalid" /\ Blank(req[r1].raw_name)
        /\ resp[r1].status = 422
        /\ Succeeded(r2)
        /\ IsSpace(req[r2].raw_name[1])
        /\ bookings[newb[r2]].client_name # req[r2].raw_name
        /\ bookings[newb[r2]].client_name = <<"A", "n", " ", "L", "e">>
        /\ resp[r2].body.client_name = <<"A", "n", " ", "L", "e">>

\* r's step ends its create_booking with an exception of this type
FailsWith(r, type) ==
    /\ pc[r] # "done" /\ pc'[r] = "done"
    /\ req'[r].kind = "book"
    /\ raised'[r].type = type

\* r's step fails the timing check
FailsTiming(r) ==
    /\ FailsWith(r, "InvalidBookingDataException")
    /\ Contains(raised'[r].message, <<"already", "occurred">>)

\* C14: create_booking checks existence, then timing, then capacity, then
\* duplicates, and reports the first check that fails.  A missing or inactive
\* class is ClassNotFound whatever else holds; a found class that has started
\* is InvalidBookingData also when it has no slot left or the client already
\* holds a booking; a found class that has not started and is read with no
\* slot left is NoSlotsAvailable also when the client already holds a
\* confirmed booking; DuplicateBooking is reported only for a class that
\* passed the three earlier checks.
C14_ChecksInOrder ==
    [][\A r \in Reqs :
        /\ (pc[r] = "idle" /\ pc'[r] # "idle" /\ req'[r].kind = "book") =>
              IF NotBookable(req'[r].class_id)
              THEN FailsWith(r, "ClassNotFoundException")
              ELSE pc'[r] = "validate"
        /\ (pc[r] = "validate" /\ pc'[r] # "validate") =>
              IF sess[r].class_datetime.utc < now THEN FailsTiming(r)
              ELSE IF sess[r].available_slots <= 0
                   THEN FailsWith(r, "NoSlotsAvailableException")
                   ELSE pc'[r] = "check_dup"
        /\ (pc[r] = "check_dup" /\ pc'[r] # "check_dup") =>
              IF ConfirmedOf(req[r].class_id, req[r].client_email) # {}
              THEN FailsWith(r, "DuplicateBookingException")
              ELSE pc'[r] = "write"
        /\ FailsWith(r, "ClassNotFoundException") => pc[r] = "idle"
        /\ FailsTiming(r) => pc[r] = "validate"
        /\ FailsWith(r, "NoSlotsAvailableException") =>
              (pc[r] = "validate" /\ sess[r].class_datetime.utc >= now)
        /\ FailsWith(r, "DuplicateBookingException") =>
              (pc[r] = "check_dup" /\ sess[r].available_slots > 0)
      ]_vars

\* C14's case: a class that had started and had no slot left was refused as
\* InvalidBookingData, to a client who held a confirmed booking of it
C14_Witness ==
    \E r \in Reqs :
        /\ RaisedType(r, "InvalidBookingDataException")
        /\ Contains(raised[r].message, <<"already", "occurred">>)
        /\ sess[r].available_slots = 0
        /\ HadConfirmed(r)

\* C15 (as claimed): when a step of the write phase of create_booking fails
\* - the failure is reported as InvalidBookingData, answered 400 - neither the
\* new booking row nor the decremented available_slots is on file: the request
\* has no booking row, and the bookings are those it found on arrival unless
\* another request has booked since.
C15_WriteAllOrNothing ==
    \A r \in Reqs :
        WriteFailed(r) =>
            /\ resp[r].status = 400
            /\ newb[r] = 0
            /\ \A i \in (req[r].bookings_before + 1)..Len(bookings) :
                  \E q \in Reqs \ {r} : newb[q] = i

\* when r arrived, its client's bookings of its class were all cancelled, and
\* there was at least one
OnlyCancelledBefore(r) ==
    /\ \E i \in 1..req[r].bookings_before :
          /\ bookings[i].class_id = req[r].class_id
          /\ bookings[i].client_email = req[r].client_email
          /\ bookings[i].booking_status = "cancelled"
    /\ ~HadConfirmed(r)

\* C16 (as claimed): a client whose only bookings of a class are cancelled is
\* not refused as a duplicate, and once its create_booking has succeeded
\* exactly one confirmed booking of that class and client is on file.
C16_CancelledExcluded ==
    \A r \in Reqs :
        (req[r].kind = "book" /\ OnlyCancelledBefore(r)) =>
            /\ RaisedType(r, "DuplicateBookingException") =>
                  \E q \in Reqs \ {r} : /\ newb[q] # 0
                                        /\ bookings[newb[q]].class_id = req[r].class_id
                                        /\ bookings[newb[q]].client_email = req[r].client_email
            /\ Succeeded(r) =>
                  Cardinality(ConfirmedOf(req[r].class_id, req[r].client_email)) = 1

\* no two bookings on file have the same booking_reference
UniqueReferences ==
    \A i, j \in 1..Len(bookings) :
        i # j => bookings[i].booking_reference # bookings[j].booking_reference

\* r's step is a commit the store refused for its constraint
RefusedByConstraint(r) ==
    /\ pc[r] = "write" /\ pc'[r] = "done"
    /\ Contains(raised'[r].message, <<"IntegrityError">>)

\* C17: no two bookings ever share a booking_reference; a commit whose
\* generated reference is that of a booking on file is refused by the store,
\* the request fails with InvalidBookingData (400), and the bookings and
\* every class's available_slots are as before.
C17_UniqueReference ==
    /\ []UniqueReferences
    /\ [][\A r \in Reqs :
            /\ RefusedByConstraint(r) =>
                  /\ raised'[r].type = "InvalidBookingDataException"
                  /\ resp'[r].status = 400
                  /\ bookings' = bookings
                  /\ classes' = classes
                  /\ newb'[r] = 0
            /\ (pc[r] = "write" /\ pc'[r] = "refresh") =>
                  /\ WellFormedReference(bookings'[newb'[r]].booking_reference)
                  /\ ~ReferenceTaken(bookings'[newb'[r]].booking_reference)
        ]_vars

\* C17's case: a request drew the reference of a booking made before it and
\* was refused, no booking of its own on file
C17_Witness ==
    \E r, q \in Reqs :
        /\ WriteFailed(r)
        /\ Contains(raised[r].message, <<"IntegrityError">>)
        /\ newb[r] = 0
        /\ Succeeded(q)
        /\ Len(bookings) = req[r].bookings_before + 1
        /\ UniqueReferences

\* C18: a listing of classes with a display timezone leaves the store as it
\* was - the class_datetime of every class, its other fields, and the
\* bookings - while the class_datetime it returns is the stored instant
\* expressed with the offset of the requested timezone.
C18_ListingLeavesStore ==
    [][\A r \in Reqs :
        (ListsClasses(r) /\ req'[r].timezone # "") =>
            /\ \A c \in DOMAIN classes :
                  classes'[c].class_datetime = classes[c].class_datetime
            /\ classes' = classes
            /\ bookings' = bookings
            /\ resp'[r].status = 200 =>
                  \A i \in 1..Len(resp'[r].body) :
                     /\ resp'[r].body[i].class_datetime.utc
                           = classes'[resp'[r].body[i].id].class_datetime.utc
                     /\ resp'[r].body[i].class_datetime.off = TzOffset(req'[r].timezone)
      ]_vars

\* C18's case: a listing returned a class in another timezone than the one
\* it is stored in
C18_Witness ==
    \E r \in Reqs :
        /\ pc[r] = "done" /\ req[r].kind = "classes" /\ resp[r].status = 200
        /\ Len(resp[r].body) > 0
        /\ resp[r].body[1].class_datetime.off # DefaultOffset
        /\ classes[resp[r].body[1].id].class_datetime.off = DefaultOffset
        /\ resp[r].body[1].class_datetime.utc = classes[resp[r].body[1].id].class_datetime.utc

\* the confirmed bookings of a class now on file
ConfirmedOfClass(cid) ==
    { i \in 1..Len(bookings) :
        bookings[i].class_id = cid /\ bookings[i].booking_status = "confirmed" }

\* C19 (as claimed): for every class the number of confirmed bookings equals
\* max_slots - available_slots, in every reachable state; in particular it
\* never exceeds max_slots.
C19_ConfirmedMatchesBookedSlots ==
    \A cid \in DOMAIN classes :
        /\ Cardinality(ConfirmedOfClass(cid)) = booked_slots(classes[cid])
        /\ Cardinality(ConfirmedOfClass(cid)) <= classes[cid].max_slots

\* C20: the commit of a successful create_booking for class c changes, of
\* the classes, only the available_slots of c - every other class, and c's
\* max_slots, start, name and is_active, are as before - and appends one
\* booking, every booking on file before it being unchanged; building the
\* response afterwards changes nothing in the store.
C20_SuccessFrame ==
    [][\A r \in Reqs :
        /\ (pc[r] = "write" /\ pc'[r] = "refresh") =>
              /\ DOMAIN classes' = DOMAIN classes
              /\ \A c \in DOMAIN classes :
                    IF c = req[r].class_id
                    THEN classes'[c] = [classes[c] EXCEPT
                                           !.available_slots = classes'[c].available_slots]
                    ELSE classes'[c] = classes[c]
              /\ Len(bookings') = Len(bookings) + 1
              /\ \A i \in 1..Len(bookings) : bookings'[i] = bookings[i]
        /\ (pc[r] = "refresh" /\ pc'[r] = "done") =>
              /\ classes' = classes
              /\ bookings' = bookings
      ]_vars

\* C20's case: a booking of the open class succeeded; the full class, the
\* deactivated class and the bookings on file before it are as they were
C20_Witness ==
    \E r \in Reqs :
        /\ Succeeded(r)
        /\ req[r].class_id = 1
        /\ classes[1].available_slots < classes[1].max_slots
        /\ classes[2].available_slots = 0 /\ classes[2].is_active
        /\ classes[3].available_slots = 1 /\ ~classes[3].is_active
        /\ bookings[1].booking_status = "confirmed"
        /\ bookings[2].booking_status = "cancelled"
        /\ bookings[2].booking_reference = SeedRefCancelled
        /\ newb[r] > 2

=============================================================================
